---- MODULE Spec2Model ----
(***************************************************************************)
(* Perfmon_Scripts: the collection loop of the three monitoring scripts    *)
(* (Perfmon_AIX.py, Perfmon_linux.py, Perfmon_macos.py).                    *)
(*                                                                         *)
(* One behaviour is one run of one script.  The main thread walks the      *)
(* probe functions of main(); on AIX two worker threads run disk_stats and *)
(* network_stats.  Every probe is a short program of instructions (one per *)
(* external command, enumeration, parse or API read of its body).  What    *)
(* an external command does (exit status, output, running time) is input   *)
(* and is drawn nondeterministically at the step that runs it.             *)
(***************************************************************************)
EXTENDS Integers, Sequences, FiniteSets, TLC

\* ---------------------------------------------------------------- bounds
SlowCmdTime == 5     \* running time (s) of a command that returns late; others take 0
MaxDisks == 2        \* lines printed by lspv
MaxVgs == 1          \* lines printed by lsvg
MaxLvLines == 3      \* lines printed by lsvg -l <vg>
MaxParts == 2        \* partitions listed by psutil.disk_partitions()
MaxProcs == 2        \* processes yielded by psutil.process_iter()
MaxSignals == 2      \* signals delivered in one run

\* ------------------------------------------------------ program constants
Platforms == {"AIX", "Linux", "macOS"}
Threads == {"main", "disk", "net"}
Workers == {"disk", "net"}
Signals == {"SIGINT", "SIGTERM", "SIGHUP"}

RUN_DURATION(p) == IF p = "AIX" THEN 30 ELSE 60
CHECK_INTERVAL(p) == IF p = "AIX" THEN 5 ELSE 10
CPU_ALERT_THRESHOLD == 90
MEMORY_ALERT_THRESHOLD == 90
DefaultTimeout == 60
IostatTimeout == 30

Min(a, b) == IF a < b THEN a ELSE b
CmdTimes == {0, SlowCmdTime}

\* ------------------------------------------------------------ instructions
\* op: what the line of the probe body does; timeout: the timeout handed to
\* run_command (0: none); cnt: the loop counter (1 or 2) an enumeration fills
\* or a loop consumes; max: most lines an enumeration yields; drop: leading
\* lines the loop skips; to: jump target; thr: the thread started or joined.
Ins(op) ==
    [op |-> op, timeout |-> 0, cnt |-> 1, max |-> 0, drop |-> 0, to |-> 0, thr |-> "main"]
Cmd(t) == [Ins("cmd") EXCEPT !.timeout = t]
Raw(c, m, d) == [Ins("raw") EXCEPT !.cnt = c, !.max = m, !.drop = d]
Enum(c, m) == [Ins("enum") EXCEPT !.cnt = c, !.max = m]
For(c, exit) == [Ins("for") EXCEPT !.cnt = c, !.to = exit]
Jump(to) == [Ins("jump") EXCEPT !.to = to]
Which(else) == [Ins("which") EXCEPT !.to = else]
Start(t) == [Ins("start") EXCEPT !.thr = t]
Join(t) == [Ins("join") EXCEPT !.thr = t]

\* ------------------------------------------------------------- AIX probes
AixSystemInfo ==
    <<Cmd(DefaultTimeout), Cmd(DefaultTimeout), Cmd(DefaultTimeout),
      Cmd(DefaultTimeout), Cmd(DefaultTimeout)>>
AixCpuMemoryStats ==
    <<Cmd(DefaultTimeout), Cmd(DefaultTimeout), Cmd(DefaultTimeout), Cmd(DefaultTimeout)>>
AixDiskStats ==
    <<Cmd(DefaultTimeout),          \* 1 run_command("lspv")
      Raw(1, MaxDisks, 0),          \* 2 subprocess.run("lspv"); splitlines
      For(1, 8),                    \* 3 for disk in disks
      Ins("split"),                 \* 4 disk.split()[0]
      Cmd(DefaultTimeout),          \* 5 lsattr -El <disk>
      Cmd(IostatTimeout),           \* 6 iostat -DlR <disk> 1 1, timeout=30
      Jump(3)>>                     \* 7
AixVolumeGroupStats ==
    <<Raw(1, MaxVgs, 0),            \* 1 subprocess.run("lsvg"); splitlines
      For(1, 13),                   \* 2 for vg in vgs
      Cmd(DefaultTimeout),          \* 3 lsvg <vg>
      Cmd(DefaultTimeout),          \* 4 lsvg -l <vg>
      Cmd(DefaultTimeout),          \* 5 lsvg -p <vg>
      Raw(2, MaxLvLines, 1),        \* 6 subprocess.run("lsvg -l <vg>"); lvs[1:]
      For(2, 12),                   \* 7 for lv in lvs[1:]
      Ins("split"),                 \* 8 lv.split()[0]
      Cmd(DefaultTimeout),          \* 9 lslv -l <lv>
      Cmd(DefaultTimeout),          \* 10 lslv -m <lv>
      Jump(7),                      \* 11
      Jump(2)>>                     \* 12
AixNetworkStats == <<Cmd(DefaultTimeout), Cmd(DefaultTimeout), Cmd(DefaultTimeout)>>
AixProcessStats ==
    <<Cmd(DefaultTimeout), Cmd(DefaultTimeout), Cmd(DefaultTimeout), Cmd(DefaultTimeout)>>
AixPagingStats == <<Cmd(DefaultTimeout), Cmd(DefaultTimeout)>>
AixFilesystemNfsStats ==
    <<Cmd(DefaultTimeout), Cmd(DefaultTimeout), Cmd(DefaultTimeout), Cmd(DefaultTimeout)>>
AixLogMonitoring == <<Cmd(DefaultTimeout)>>
\* parallel_tasks with the join loop leaving out the second thread.
parallel_tasks_JoinsDiskOnly == <<Start("disk"), Start("net"), Join("disk")>>
\* parallel_tasks starting the second thread only after the first has ended.
parallel_tasks_Serial == <<Start("disk"), Join("disk"), Start("net"), Join("net")>>
parallel_tasks == <<Start("disk"), Start("net"), Join("disk"), Join("net")>>

\* ----------------------------------------------------------- Linux probes
LinuxSystemInfo == <<Cmd(0), Cmd(0)>>
LinuxCpuMemoryStats ==
    <<Ins("metrics"),               \* 1 psutil.cpu_percent(interval=1); virtual_memory()
      Ins("alert"),                 \* 2 the two threshold tests
      Cmd(0)>>                      \* 3 cat /proc/stat | head -n 5
LinuxDiskStats ==
    <<Enum(1, MaxParts),            \* 1 psutil.disk_partitions()
      For(1, 5),                    \* 2 for partition in partitions
      Ins("usage"),                 \* 3 try: psutil.disk_usage(...) except PermissionError
      Jump(2),                      \* 4
      Which(8),                     \* 5 if shutil.which("iostat")
      Cmd(0),                       \* 6 iostat -xm 1 5
      Jump(9),                      \* 7
      Cmd(0)>>                      \* 8 else: vmstat 1 5
LinuxNetworkStats == <<Ins("api"), Cmd(0), Cmd(0)>>
LinuxProcessStats ==
    <<Enum(1, MaxProcs),            \* 1 psutil.process_iter([...])
      For(1, 5),                    \* 2 for proc in ...
      Ins("procinfo"),              \* 3 try: proc.info; cpu_percent > 50 except AccessDenied
      Jump(2),                      \* 4
      Cmd(0), Cmd(0), Cmd(0)>>      \* 5..7 top -bn1, lsof, pstree
LinuxPagingStats == <<Ins("api"), Cmd(0)>>
LinuxFilesystemStats == <<Cmd(0), Cmd(0), Cmd(0)>>
LinuxNfsStats ==
    <<Which(5),                     \* 1 if shutil.which("nfsstat")
      Cmd(0), Cmd(0),               \* 2,3 nfsstat -s, nfsstat -c
      Jump(6),                      \* 4
      Ins("warn")>>                 \* 5 else: logging.warning("nfsstat command not found.")
LinuxCheckNfsMounts == <<Ins("mounts")>>
LinuxLogMonitoring == <<Cmd(0), Cmd(0)>>

\* ----------------------------------------------------------- macOS probes
MacSystemInfo == <<Cmd(0), Cmd(0)>>
MacCpuMemoryStats == <<Cmd(0), Cmd(0), Cmd(0), Cmd(0)>>
MacDiskStats == <<Cmd(0), Cmd(0), Cmd(0)>>
MacProcessStats == <<Cmd(0), Cmd(0)>>
MacNetworkStats == <<Cmd(0), Cmd(0)>>
MacFilesystemNfsStats == <<Cmd(0), Cmd(0)>>
MacErrorLogs == <<Cmd(0)>>

\* The body of probe function f of platform p.
Prog(p, f) ==
    IF p = "AIX" THEN
        CASE f = "system_info" -> AixSystemInfo
          [] f = "parallel_tasks" -> parallel_tasks
          [] f = "disk_stats" -> AixDiskStats
          [] f = "network_stats" -> AixNetworkStats
          [] f = "cpu_memory_stats" -> AixCpuMemoryStats
          [] f = "volume_group_stats" -> AixVolumeGroupStats
          [] f = "process_stats" -> AixProcessStats
          [] f = "paging_stats" -> AixPagingStats
          [] f = "filesystem_nfs_stats" -> AixFilesystemNfsStats
          [] f = "log_monitoring" -> AixLogMonitoring
    ELSE IF p = "Linux" THEN
        CASE f = "system_info" -> LinuxSystemInfo
          [] f = "cpu_memory_stats" -> LinuxCpuMemoryStats
          [] f = "disk_stats" -> LinuxDiskStats
          [] f = "network_stats" -> LinuxNetworkStats
          [] f = "process_stats" -> LinuxProcessStats
          [] f = "paging_stats" -> LinuxPagingStats
          [] f = "filesystem_stats" -> LinuxFilesystemStats
          [] f = "nfs_stats" -> LinuxNfsStats
          [] f = "check_nfs_mounts" -> LinuxCheckNfsMounts
          [] f = "log_monitoring" -> LinuxLogMonitoring
    ELSE
        CASE f = "system_info" -> MacSystemInfo
          [] f = "cpu_memory_stats" -> MacCpuMemoryStats
          [] f = "disk_stats" -> MacDiskStats
          [] f = "process_stats" -> MacProcessStats
          [] f = "network_stats" -> MacNetworkStats
          [] f = "filesystem_nfs_stats" -> MacFilesystemNfsStats
          [] f = "error_logs" -> MacErrorLogs

\* The calls main() makes in one pass of its while loop, in order.
\* The AIX loop body with the process_stats() call left out.
AixCycle_SkipsProcessStats ==
    <<"parallel_tasks", "cpu_memory_stats", "volume_group_stats",
      "paging_stats", "filesystem_nfs_stats", "log_monitoring">>
AixCycle ==
    <<"parallel_tasks", "cpu_memory_stats", "volume_group_stats", "process_stats",
      "paging_stats", "filesystem_nfs_stats", "log_monitoring">>
LinuxCycle ==
    <<"cpu_memory_stats", "disk_stats", "network_stats", "process_stats", "paging_stats",
      "filesystem_stats", "nfs_stats", "check_nfs_mounts", "log_monitoring">>
MacCycle ==
    <<"system_info", "cpu_memory_stats", "disk_stats", "process_stats", "network_stats",
      "filesystem_nfs_stats", "error_logs">>
Cycle(p) == IF p = "AIX" THEN AixCycle ELSE IF p = "Linux" THEN LinuxCycle ELSE MacCycle

\* The probe function a worker thread is created for (threading.Thread(target=...)).
Target(t) == IF t = "disk" THEN "disk_stats" ELSE "network_stats"

ProbeNames ==
    {"system_info", "parallel_tasks", "disk_stats", "network_stats", "cpu_memory_stats",
     "volume_group_stats", "process_stats", "paging_stats", "filesystem_nfs_stats",
     "log_monitoring", "filesystem_stats", "nfs_stats", "check_nfs_mounts", "error_logs"}

\* ------------------------------------------------------------------ state
VARIABLES
    platform,      \* which script runs
    ctl,           \* per thread: where it is ([pc, probe, k, i, n1, n2, exc])
    now,           \* time.time() - start_time in seconds, kept up to RUN_DURATION
    cycles,        \* passes of the while loop begun
    invoked,       \* per probe function: calls made in the current pass
    sysinfoRuns,   \* calls of system_info() made in the run
    logged,        \* the log records written by the step just taken
    metrics,       \* cpu_memory_stats' locals cpu_percent and memory.percent (Linux)
    alerts,        \* the ALERT warnings the running cpu_memory_stats has logged
    hpc,           \* the active signal_handler frames, innermost last
    sigs,          \* signals delivered
    cleanups,      \* calls of cleanup() made
    aborted        \* the probe function an exit unwound, or "none"

vars ==
    <<platform, ctl, now, cycles, invoked, sysinfoRuns, logged, metrics, alerts,
      hpc, sigs, cleanups, aborted>>

Idle == [pc |-> "idle", probe |-> "none", k |-> 0, i |-> 0, n1 |-> 0, n2 |-> 0, exc |-> "none"]
NoMetrics == [cpu |-> -1, mem |-> -1]
Rec(level, msg) == [level |-> level, msg |-> msg]
Settled == {"finished", "raised"}

\* Entering the k-th call of the loop body (k = 0: the system_info() call before it).
Enter(p, k) ==
    [pc |-> "run", probe |-> IF k = 0 THEN "system_info" ELSE Cycle(p)[k],
     k |-> k, i |-> 1, n1 |-> 0, n2 |-> 0, exc |-> "none"]

Init ==
    /\ platform \in Platforms
    /\ ctl = [t \in Threads |-> IF t = "main" THEN [Idle EXCEPT !.pc = "init"] ELSE Idle]
    /\ now = 0
    /\ cycles = 0
    /\ invoked = [f \in ProbeNames |-> 0]
    /\ sysinfoRuns = 0
    /\ logged = <<>>
    /\ metrics = NoMetrics
    /\ alerts = {}
    /\ hpc = <<>>
    /\ sigs = 0
    /\ cleanups = 0
    /\ aborted = "none"

\* ---------------------------------------------------------------- helpers
\* Thread t executes Python code of its own (the main thread does not while a
\* signal handler frame is on top of it).
Running(t) == ctl[t].pc = "run" /\ (t = "main" => hpc = <<>>)
Cur(t) == Prog(platform, ctl[t].probe)[ctl[t].i]
At(t, op) == Running(t) /\ Cur(t).op = op

\* The probe function of thread t returns.
Return(t) ==
    LET c == ctl[t] IN
    IF t # "main" THEN [Idle EXCEPT !.pc = "finished", !.probe = c.probe]
    ELSE IF c.k = 0 THEN [Idle EXCEPT !.pc = "test"]
    ELSE IF c.k < Len(Cycle(platform)) THEN Enter(platform, c.k + 1)
    ELSE [Idle EXCEPT !.pc = "sleep"]

\* Thread t goes on to instruction j of its probe function; past the last
\* instruction the function returns.
After(t, j) ==
    IF j <= Len(Prog(platform, ctl[t].probe)) THEN [ctl[t] EXCEPT !.i = j] ELSE Return(t)

\* The probe function main calls next when thread t goes on to instruction j.
Called(t, j) ==
    IF t = "main" /\ After(t, j).pc = "run" /\ After(t, j).k # ctl[t].k
    THEN After(t, j).probe ELSE "none"

Count(inv, f) == IF f = "none" THEN inv ELSE [inv EXCEPT ![f] = @ + 1]

Goto(t, j) ==
    /\ ctl' = [ctl EXCEPT ![t] = After(t, j)]
    /\ invoked' = Count(invoked, Called(t, j))
    /\ sysinfoRuns' = IF Called(t, j) = "system_info" THEN sysinfoRuns + 1 ELSE sysinfoRuns
    /\ metrics' = IF After(t, j).probe = ctl[t].probe /\ After(t, j).pc = "run"
                  THEN metrics ELSE NoMetrics
    /\ alerts' = IF After(t, j).probe = ctl[t].probe /\ After(t, j).pc = "run"
                 THEN alerts ELSE {}

\* An exception nothing in the probe catches: a worker thread ends with it; in
\* the main thread it leaves main() (only KeyboardInterrupt is caught there).
Raise(t, e) ==
    /\ ctl' = [ctl EXCEPT ![t] =
                 [Idle EXCEPT !.pc = IF t = "main" THEN "crashed" ELSE "raised",
                              !.probe = ctl[t].probe, !.k = ctl[t].k, !.exc = e]]
    /\ logged' = <<>>
    /\ metrics' = IF t = "main" THEN NoMetrics ELSE metrics
    /\ alerts' = IF t = "main" THEN {} ELSE alerts
    /\ UNCHANGED <<invoked, sysinfoRuns>>

\* A call that never returns and has no timeout: the thread stays in it.
Hang(t) ==
    /\ ctl' = [ctl EXCEPT ![t].pc = "hung"]
    /\ logged' = <<>>
    /\ UNCHANGED <<invoked, sysinfoRuns, metrics, alerts>>

\* The elapsed clock after d more seconds: start_time is taken after the
\* system_info() call that precedes the loop, and the clock is only compared
\* with RUN_DURATION, so it is kept up to that value.
Tick(d) ==
    IF ctl["main"].k = 0 /\ ctl["main"].pc = "run" THEN now
    ELSE Min(now + d, RUN_DURATION(platform))

Outcomes == {"ok", "nonzero", "missing", "noreturn", "garbled"}

\* What run_command logs (and, on macOS, what its caller then logs) for a
\* command that ended with outcome o.
CommandLog(p, o) ==
    IF o = "ok" THEN <<Rec("INFO", "output")>>
    ELSE IF o = "noreturn" THEN <<Rec("WARNING", "timed out")>>
    ELSE IF p = "macOS" THEN <<Rec("ERROR", "failed"), Rec("INFO", "None")>>
    ELSE <<Rec("ERROR", "failed")>>

\* run_command(command[, timeout]): subprocess.run(shell=True, check=True, ...)
RunCommand(t) ==
    /\ At(t, "cmd")
    /\ \E o \in Outcomes, d \in CmdTimes :
         \/ /\ o \in {"ok", "nonzero", "missing"}
            /\ Goto(t, ctl[t].i + 1)
            /\ logged' = CommandLog(platform, o)
            /\ now' = Tick(d)
         \/ /\ o = "noreturn" /\ Cur(t).timeout > 0
            /\ Goto(t, ctl[t].i + 1)
            /\ logged' = CommandLog(platform, o)
            /\ now' = Tick(Cur(t).timeout)
         \/ /\ o = "noreturn" /\ Cur(t).timeout = 0
            /\ Hang(t)
            /\ now' = now
         \/ /\ o = "garbled"           \* UnicodeDecodeError from decode('utf-8')
            /\ Raise(t, "UnicodeDecodeError")
            /\ now' = Tick(d)
    /\ UNCHANGED <<platform, cycles, hpc, sigs, cleanups, aborted>>

\* The loop counter c of thread t set to v.
SetCnt(t, c, v) == IF c = 1 THEN [ctl[t] EXCEPT !.n1 = v] ELSE [ctl[t] EXCEPT !.n2 = v]
Cnt(t, c) == IF c = 1 THEN ctl[t].n1 ELSE ctl[t].n2
Max(a, b) == IF a > b THEN a ELSE b

\* result = subprocess.run(cmd, shell=True, stdout=subprocess.PIPE);
\* lines = result.stdout.decode('utf-8').splitlines(): no check=True, no timeout.
\* Whatever the command's exit status, the lines it printed are iterated.
RawEnumerate(t) ==
    /\ At(t, "raw")
    /\ \E d \in CmdTimes :
         \/ /\ \E lines \in 0..Cur(t).max :
                 ctl' = [ctl EXCEPT ![t] =
                           [SetCnt(t, Cur(t).cnt, Max(lines - Cur(t).drop, 0))
                              EXCEPT !.i = ctl[t].i + 1]]
            /\ logged' = <<>>
            /\ now' = Tick(d)
            /\ UNCHANGED <<invoked, sysinfoRuns, metrics, alerts>>
         \/ /\ Hang(t)
            /\ now' = now
         \/ /\ Raise(t, "UnicodeDecodeError")
            /\ now' = Tick(d)
    /\ UNCHANGED <<platform, cycles, hpc, sigs, cleanups, aborted>>

\* psutil.disk_partitions() / psutil.process_iter([...]): the items to loop over.
EnumApi(t) ==
    /\ At(t, "enum")
    /\ \E items \in 0..Cur(t).max :
         ctl' = [ctl EXCEPT ![t] = [SetCnt(t, Cur(t).cnt, items) EXCEPT !.i = ctl[t].i + 1]]
    /\ logged' = <<>>
    /\ UNCHANGED <<platform, now, cycles, invoked, sysinfoRuns, metrics, alerts,
                   hpc, sigs, cleanups, aborted>>

\* for x in lines: take the next line, or leave the loop when none is left.
ForLine(t) ==
    /\ At(t, "for")
    /\ IF Cnt(t, Cur(t).cnt) = 0
       THEN Goto(t, Cur(t).to)
       ELSE /\ ctl' = [ctl EXCEPT ![t] =
                         [SetCnt(t, Cur(t).cnt, Cnt(t, Cur(t).cnt) - 1)
                            EXCEPT !.i = ctl[t].i + 1]]
            /\ UNCHANGED <<invoked, sysinfoRuns, metrics, alerts>>
    /\ logged' = <<>>
    /\ UNCHANGED <<platform, now, cycles, hpc, sigs, cleanups, aborted>>

\* name = line.split()[0]: IndexError when the line holds no word.
SplitLine(t) ==
    /\ At(t, "split")
    /\ \E blank \in BOOLEAN :
         IF blank THEN Raise(t, "IndexError")
         ELSE /\ Goto(t, ctl[t].i + 1)
              /\ logged' = <<Rec("INFO", "collecting")>>
    /\ UNCHANGED <<platform, now, cycles, hpc, sigs, cleanups, aborted>>

\* The end of a loop body or of an if branch.
JumpTo(t) ==
    /\ At(t, "jump")
    /\ Goto(t, Cur(t).to)
    /\ logged' = <<>>
    /\ UNCHANGED <<platform, now, cycles, hpc, sigs, cleanups, aborted>>

\* if shutil.which(cmd): ... else: ...
CheckWhich(t) ==
    /\ At(t, "which")
    /\ \E present \in BOOLEAN :
         Goto(t, IF present THEN ctl[t].i + 1 ELSE Cur(t).to)
    /\ logged' = <<>>
    /\ UNCHANGED <<platform, now, cycles, hpc, sigs, cleanups, aborted>>

\* logging.warning("nfsstat command not found.")
WarnMissing(t) ==
    /\ At(t, "warn")
    /\ Goto(t, ctl[t].i + 1)
    /\ logged' = <<Rec("WARNING", "not found")>>
    /\ UNCHANGED <<platform, now, cycles, hpc, sigs, cleanups, aborted>>

\* thread.start(): the worker begins its target function.
StartThread ==
    /\ At("main", "start")
    /\ ctl' = [ctl EXCEPT !["main"].i = @ + 1,
                          ![Cur("main").thr] =
                              [Idle EXCEPT !.pc = "run", !.probe = Target(Cur("main").thr),
                                           !.i = 1]]
    /\ invoked' = Count(invoked, Target(Cur("main").thr))
    /\ logged' = <<>>
    /\ UNCHANGED <<platform, now, cycles, sysinfoRuns, metrics, alerts,
                   hpc, sigs, cleanups, aborted>>

\* thread.join(): returns once the worker has ended, normally or by an exception.
JoinThread ==
    /\ At("main", "join")
    /\ ctl[Cur("main").thr].pc \in Settled
    /\ Goto("main", ctl["main"].i + 1)
    /\ logged' = <<>>
    /\ UNCHANGED <<platform, now, cycles, hpc, sigs, cleanups, aborted>>

\* cpu_percent = psutil.cpu_percent(interval=1); memory = psutil.virtual_memory()
ReadMetrics(S) ==
    /\ At("main", "metrics")
    /\ \E v \in S, m \in S : metrics' = [cpu |-> v, mem |-> m]
    /\ ctl' = [ctl EXCEPT !["main"].i = @ + 1]
    /\ logged' = <<Rec("INFO", "usage")>>
    /\ now' = Tick(1)
    /\ UNCHANGED <<platform, cycles, invoked, sysinfoRuns, alerts, hpc, sigs, cleanups, aborted>>

\* if cpu_percent > CPU_ALERT_THRESHOLD: warning; if memory.percent > ...: warning
\* The CPU test with the threshold itself counted as high.
CpuAlert_AtThreshold(v) == v >= CPU_ALERT_THRESHOLD
CpuAlert(v) == v > CPU_ALERT_THRESHOLD
MemoryAlert(m) == m > MEMORY_ALERT_THRESHOLD
AlertDecision ==
    /\ At("main", "alert")
    /\ alerts' = (IF CpuAlert(metrics.cpu) THEN {"cpu"} ELSE {})
                   \cup (IF MemoryAlert(metrics.mem) THEN {"memory"} ELSE {})
    /\ logged' = (IF CpuAlert(metrics.cpu) THEN <<Rec("WARNING", "ALERT cpu")>> ELSE <<>>)
                   \o (IF MemoryAlert(metrics.mem) THEN <<Rec("WARNING", "ALERT memory")>>
                       ELSE <<>>)
    /\ ctl' = [ctl EXCEPT !["main"].i = @ + 1]
    /\ UNCHANGED <<platform, now, cycles, invoked, sysinfoRuns, metrics, hpc, sigs,
                   cleanups, aborted>>

\* psutil.net_io_counters() / psutil.swap_memory() and the lines logged from it.
ApiRead(t) ==
    /\ At(t, "api")
    /\ Goto(t, ctl[t].i + 1)
    /\ logged' = <<Rec("INFO", "usage")>>
    /\ UNCHANGED <<platform, now, cycles, hpc, sigs, cleanups, aborted>>

\* try: usage = psutil.disk_usage(mountpoint) ... except PermissionError: warning
DiskUsage(t) ==
    /\ At(t, "usage")
    /\ \E o \in {"ok", "permission", "oserror"} :
         IF o = "oserror" THEN Raise(t, "OSError")
         ELSE /\ Goto(t, ctl[t].i + 1)
              /\ logged' = IF o = "ok" THEN <<Rec("INFO", "usage")>>
                           ELSE <<Rec("WARNING", "permission denied")>>
    /\ UNCHANGED <<platform, now, cycles, hpc, sigs, cleanups, aborted>>

\* try: proc_info = proc.info; if proc_info['cpu_percent'] > 50: warning
\* except psutil.AccessDenied: ...   (psutil stores None for a field it was
\* denied; None > 50 raises TypeError, which the except clause does not catch)
ProcInfo(t) ==
    /\ At(t, "procinfo")
    /\ \E o \in {"low", "high", "none"} :
         IF o = "none" THEN Raise(t, "TypeError")
         ELSE /\ Goto(t, ctl[t].i + 1)
              /\ logged' = IF o = "high" THEN <<Rec("WARNING", "high cpu")>> ELSE <<>>
    /\ UNCHANGED <<platform, now, cycles, hpc, sigs, cleanups, aborted>>

\* check_nfs_mounts: try: open("/proc/mounts") ... except Exception: error
CheckMounts(t) ==
    /\ At(t, "mounts")
    /\ \E o \in {"found", "none", "error"} :
         /\ Goto(t, ctl[t].i + 1)
         /\ logged' = IF o = "error" THEN <<Rec("ERROR", "mounts")>>
                      ELSE <<Rec("INFO", "mounts")>>
    /\ UNCHANGED <<platform, now, cycles, hpc, sigs, cleanups, aborted>>

\* ------------------------------------------------------------ main()
\* main() up to the loop: AIX and Linux log the start and call system_info();
\* macOS calls setup_logging() and takes start_time at once.
Boot ==
    /\ ctl["main"].pc = "init" /\ hpc = <<>>
    /\ IF platform = "macOS"
       THEN /\ ctl' = [ctl EXCEPT !["main"] = [Idle EXCEPT !.pc = "test"]]
            /\ logged' = <<>>
            /\ UNCHANGED sysinfoRuns
       ELSE /\ ctl' = [ctl EXCEPT !["main"] = Enter(platform, 0)]
            /\ logged' = <<Rec("INFO", "starting")>>
            /\ sysinfoRuns' = sysinfoRuns + 1
    /\ UNCHANGED <<platform, now, cycles, invoked, metrics, alerts, hpc, sigs, cleanups, aborted>>

\* while (time.time() - start_time) < RUN_DURATION
LoopCondition(elapsed) == elapsed < RUN_DURATION(platform)

\* The loop test: another pass begins with the first call of the body, or the
\* loop ends and main() logs that monitoring completed.
LoopTest ==
    /\ ctl["main"].pc = "test" /\ hpc = <<>>
    /\ IF LoopCondition(now)
       THEN /\ ctl' = [t \in Threads |-> IF t = "main" THEN Enter(platform, 1) ELSE Idle]
            /\ cycles' = cycles + 1
            /\ invoked' = Count([f \in ProbeNames |-> 0], Cycle(platform)[1])
            /\ sysinfoRuns' = IF Cycle(platform)[1] = "system_info"
                              THEN sysinfoRuns + 1 ELSE sysinfoRuns
            /\ logged' = <<Rec("INFO", "collecting")>>
       ELSE /\ ctl' = [ctl EXCEPT !["main"].pc = "done"]
            /\ logged' = <<Rec("INFO", "completed")>>
            /\ UNCHANGED <<cycles, invoked, sysinfoRuns>>
    /\ UNCHANGED <<platform, now, metrics, alerts, hpc, sigs, cleanups, aborted>>

\* time.sleep(CHECK_INTERVAL), reached after the last call of every pass.
\* A sleep one second short of the interval.
SleepTime_Short == CHECK_INTERVAL(platform) - 1
SleepTime == CHECK_INTERVAL(platform)
Sleep ==
    /\ ctl["main"].pc = "sleep" /\ hpc = <<>>
    /\ now' = Min(now + SleepTime, RUN_DURATION(platform))
    /\ ctl' = [ctl EXCEPT !["main"].pc = "test"]
    /\ logged' = <<>>
    /\ UNCHANGED <<platform, cycles, invoked, sysinfoRuns, metrics, alerts,
                   hpc, sigs, cleanups, aborted>>

\* ------------------------------------------------------------- signals
\* The main thread is inside main() (or, after exit(), waiting for the
\* worker threads as the interpreter shuts down).
MainAlive == ctl["main"].pc \in {"init", "test", "run", "sleep", "hung", "exiting"}

\* SIGINT, SIGTERM or SIGHUP on AIX and Linux: signal_handler starts on top of
\* whatever the main thread is doing (a running handler included) and logs
\* "Received signal ..., cleaning up..."; its call of cleanup() is next.
SignalArrive ==
    /\ platform # "macOS" /\ MainAlive /\ sigs < MaxSignals
    /\ \E sig \in Signals : hpc' = Append(hpc, "cleanup")
    /\ sigs' = sigs + 1
    /\ logged' = <<Rec("INFO", "received signal")>>
    /\ UNCHANGED <<platform, ctl, now, cycles, invoked, sysinfoRuns, metrics,
                   alerts, cleanups, aborted>>

SetTop(pos) == [hpc EXCEPT ![Len(hpc)] = pos]

\* cleanup(): logging.info("Cleaning up resources before exiting.")
HandlerCleanup ==
    /\ hpc # <<>> /\ hpc[Len(hpc)] = "cleanup"
    /\ hpc' = SetTop("exit")
    /\ cleanups' = cleanups + 1
    /\ logged' = <<Rec("INFO", "cleaning up")>>
    /\ UNCHANGED <<platform, ctl, now, cycles, invoked, sysinfoRuns, metrics, alerts,
                   sigs, aborted>>

\* signal_handler ending with a return in place of exit(1): the frame is
\* popped and whatever it interrupted goes on.
HandlerExit_Returns ==
    /\ hpc # <<>> /\ hpc[Len(hpc)] = "exit"
    /\ hpc' = SubSeq(hpc, 1, Len(hpc) - 1)
    /\ logged' = <<>>
    /\ UNCHANGED <<platform, ctl, now, cycles, invoked, sysinfoRuns, metrics, alerts,
                   sigs, cleanups, aborted>>

\* exit(1): SystemExit unwinds every handler frame and main() with whatever
\* main() was doing; nothing catches it.  The interpreter then waits for the
\* worker threads; a SystemExit raised during that wait ends the wait.
HandlerExit ==
    /\ hpc # <<>> /\ hpc[Len(hpc)] = "exit"
    /\ hpc' = <<>>
    /\ IF ctl["main"].pc = "exiting"
       THEN /\ ctl' = [t \in Threads |->
                         IF t = "main" THEN [ctl[t] EXCEPT !.pc = "exited"]
                         ELSE IF ctl[t].pc \in {"run", "hung"}
                              THEN [ctl[t] EXCEPT !.pc = "killed"] ELSE ctl[t]]
            /\ UNCHANGED aborted
       ELSE /\ ctl' = [ctl EXCEPT !["main"] = [Idle EXCEPT !.pc = "exiting"]]
            /\ aborted' = IF ctl["main"].pc \in {"run", "hung"}
                          THEN ctl["main"].probe ELSE aborted
    /\ logged' = <<>>
    /\ metrics' = NoMetrics
    /\ alerts' = {}
    /\ UNCHANGED <<platform, now, cycles, invoked, sysinfoRuns, sigs, cleanups>>

\* Interpreter shutdown after exit(): threading._shutdown() joins the
\* non-daemon worker threads, then the process ends.
Shutdown ==
    /\ ctl["main"].pc = "exiting" /\ hpc = <<>>
    /\ \A w \in Workers : ctl[w].pc \notin {"run", "hung"}
    /\ ctl' = [ctl EXCEPT !["main"].pc = "exited"]
    /\ logged' = <<>>
    /\ UNCHANGED <<platform, now, cycles, invoked, sysinfoRuns, metrics, alerts,
                   hpc, sigs, cleanups, aborted>>

\* macOS registers no handler: SIGINT raises KeyboardInterrupt in the main
\* thread, caught around main() ("Monitoring stopped by user."); SIGTERM and
\* SIGHUP end the process.
MacSignal ==
    /\ platform = "macOS" /\ sigs < MaxSignals
    /\ ctl["main"].pc \in {"init", "test", "run", "sleep", "hung"}
    /\ \E sig \in Signals :
         /\ ctl' = [ctl EXCEPT !["main"] =
                      [Idle EXCEPT !.pc = IF sig = "SIGINT" THEN "stopped" ELSE "killed"]]
         /\ logged' = IF sig = "SIGINT" THEN <<Rec("INFO", "stopped by user")>> ELSE <<>>
    /\ aborted' = IF ctl["main"].pc \in {"run", "hung"} THEN ctl["main"].probe ELSE aborted
    /\ sigs' = sigs + 1
    /\ UNCHANGED <<platform, now, cycles, invoked, sysinfoRuns, metrics, alerts,
                   hpc, cleanups>>

\* ------------------------------------------------------------- behaviours
\* The values psutil reports in a run of the whole script.
PercentSamples == {0, 90, 91, 100}

ProbeStep(t) ==
    \/ RunCommand(t)
    \/ RawEnumerate(t)
    \/ EnumApi(t)
    \/ ForLine(t)
    \/ SplitLine(t)
    \/ JumpTo(t)
    \/ CheckWhich(t)
    \/ WarnMissing(t)
    \/ ApiRead(t)
    \/ DiskUsage(t)
    \/ ProcInfo(t)
    \/ CheckMounts(t)

Next ==
    \/ Boot
    \/ LoopTest
    \/ Sleep
    \/ StartThread
    \/ JoinThread
    \/ ReadMetrics(PercentSamples)
    \/ AlertDecision
    \/ \E t \in Threads : ProbeStep(t)
    \/ SignalArrive
    \/ HandlerCleanup
    \/ HandlerExit
    \/ Shutdown
    \/ MacSignal

Spec == Init /\ [][Next]_vars

\* The AIX script in a run no signal interrupts: the statements its probe
\* functions are made of, and the steps of its main().
AixStep(t) ==
    \/ RunCommand(t)
    \/ RawEnumerate(t)
    \/ ForLine(t)
    \/ SplitLine(t)
    \/ JumpTo(t)

InitAix == Init /\ platform = "AIX"

NextAix ==
    \/ Boot
    \/ LoopTest
    \/ Sleep
    \/ StartThread
    \/ JoinThread
    \/ \E t \in Threads : AixStep(t)

\* The operating system keeps scheduling a worker thread that can run.
SpecAixFair == InitAix /\ [][NextAix]_vars /\ \A w \in Workers : WF_vars(AixStep(w))

\* A run of any of the three scripts that no signal interrupts.
NextRun ==
    \/ Boot
    \/ LoopTest
    \/ Sleep
    \/ StartThread
    \/ JoinThread
    \/ ReadMetrics(PercentSamples)
    \/ AlertDecision
    \/ \E t \in Threads : ProbeStep(t)

\* A thread that can go on does: a call that returns is returned from, the
\* sleep ends, and the operating system schedules every thread that can run.
SpecRunFair == Init /\ [][NextRun]_vars /\ WF_vars(NextRun)

\* ---------------------------------------------------------------- claims
Main == ctl["main"]
Other(w) == IF w = "disk" THEN "net" ELSE "disk"

\* The probe functions one pass of each script's loop is to call.
C1Probes(p) ==
    IF p = "AIX" THEN
        {"disk_stats", "network_stats", "cpu_memory_stats", "volume_group_stats",
         "process_stats", "paging_stats", "filesystem_nfs_stats", "log_monitoring"}
    ELSE IF p = "Linux" THEN
        {"cpu_memory_stats", "disk_stats", "network_stats", "process_stats", "paging_stats",
         "filesystem_stats", "nfs_stats", "check_nfs_mounts", "log_monitoring"}
    ELSE
        {"system_info", "cpu_memory_stats", "disk_stats", "process_stats", "network_stats",
         "filesystem_nfs_stats", "error_logs"}

\* C1: when a pass of the loop has run to its end (main is in the sleep that
\* follows the last probe), every probe function of the pass has been called
\* exactly once and no other probe function has been called in it, whatever
\* the commands of the pass did.
C1_EachProbeOncePerCycle ==
    Main.pc = "sleep" =>
        \A f \in ProbeNames \ {"parallel_tasks"} :
            invoked[f] = IF f \in C1Probes(platform) THEN 1 ELSE 0

\* An AIX pass that ran to its end although disk_stats died with an exception
\* and the last command of the pass failed.
C1_Witness ==
    /\ platform = "AIX" /\ Main.pc = "sleep"
    /\ ctl["disk"].pc = "raised"
    /\ logged = <<Rec("ERROR", "failed")>>

\* C2: no failure raised in a probe of a pass leaves main(): in particular
\* main() is never left by the IndexError of parsing an enumerated line (AIX)
\* or by the TypeError of a per-process psutil read (Linux).
C2_NoProbeFailureEscapes ==
    ~(Main.pc = "crashed" /\ Main.k >= 1 /\ Main.exc \in {"IndexError", "TypeError"})

\* C3: every external command runs under a deadline, so no thread stays
\* forever in a command that never returns.
C3_EveryCommandHasDeadline == \A t \in Threads : ctl[t].pc # "hung"

\* C4: a signal handled by signal_handler while a pass is in flight does not
\* abort the pass: no probe function of a pass is unwound by the exit.
C4_InFlightCycleNotAborted == ~(platform # "macOS" /\ cycles >= 1 /\ aborted # "none")

\* The order of the sequential AIX probes, as the claim lists it.
C5Order ==
    <<"cpu_memory_stats", "volume_group_stats", "process_stats", "paging_stats",
      "filesystem_nfs_stats", "log_monitoring">>

\* C5: on AIX, while main runs the j-th sequential probe, both worker threads
\* have ended (normally or by an exception), the probe is the j-th of the
\* fixed order, and of the sequential probes exactly the first j have been
\* called in this pass, once each.
C5_SettledBeforeSequential ==
    (platform = "AIX" /\ Main.pc = "run" /\ Main.k >= 2) =>
        /\ \A w \in Workers : ctl[w].pc \in Settled
        /\ Main.k - 1 <= Len(C5Order)
        /\ Main.probe = C5Order[Main.k - 1]
        /\ \A j \in 1..Len(C5Order) : invoked[C5Order[j]] = IF j <= Main.k - 1 THEN 1 ELSE 0

\* cpu_memory_stats running after disk_stats ended with an exception and
\* network_stats ended normally.
C5_Witness ==
    /\ platform = "AIX" /\ Main.pc = "run" /\ Main.probe = "cpu_memory_stats"
    /\ ctl["disk"].pc = "raised" /\ ctl["net"].pc = "finished"

\* main is waiting in parallel_tasks' join loop.
AtJoin == platform = "AIX" /\ Main.pc = "run" /\ Main.probe = "parallel_tasks"
          /\ Cur("main").op = "join"

\* Once main waits for the threads, both have been started.
C6_BothStarted == AtJoin => \A w \in Workers : ctl[w].pc # "idle"

\* A worker inside its probe function can always take its next step,
\* whatever state its sibling is in.
C6_NeverBlocked == \A w \in Workers : ctl[w].pc = "run" => ENABLED AixStep(w)

\* A step of a running worker (to its next instruction, to its end, into an
\* exception or into a command that hangs) leaves its sibling where it is.
C6_StepLeavesSibling ==
    \A w \in Workers :
        (ctl[w].pc = "run" /\ ctl'[w] # ctl[w]
            /\ ctl'[w].pc \in {"run", "finished", "raised", "hung"})
        => ctl'[Other(w)] = ctl[Other(w)]

\* A worker whose sibling has died with an exception or is stuck in a command
\* still comes to an end of its own: its function returns, or it dies with
\* an exception of its own or sticks in a command of its own.
C6_SiblingEnds ==
    \A w \in Workers :
        (ctl[w].pc = "run" /\ ctl[Other(w)].pc \in {"raised", "hung"})
            ~> (ctl[w].pc \in {"finished", "raised", "hung"})

\* C6: in the AIX concurrent pair, a failure, exception or timeout in one
\* probe neither keeps the sibling from being started, nor stops it, nor
\* keeps it from taking its next step, and the sibling runs to an end.
C6_SiblingUnaffected ==
    /\ [](C6_BothStarted /\ C6_NeverBlocked)
    /\ [][C6_StepLeavesSibling]_vars
    /\ C6_SiblingEnds

\* main waits in the join loop; disk_stats has died with an exception and
\* network_stats has run to its end.
C6_Witness ==
    AtJoin /\ ctl["disk"].pc = "raised" /\ ctl["net"].pc = "finished"

\* C7: on every script system_info() is called exactly once in a run, before
\* the first pass of the loop and in no pass.
C7_SystemInfoOncePerRun ==
    /\ cycles >= 1 => sysinfoRuns = 1
    /\ invoked["system_info"] = 0

C9_NoWaitOnceDurationReached ==
    ~(Main.pc = "sleep" /\ now >= RUN_DURATION(platform))

CeilDiv(a, b) == (a + b - 1) \div b

C11_SignalEndsSleepNoNewCycle ==
    [][sigs' >= 1 =>
          /\ cycles' = cycles
          /\ Main.pc = "sleep" =>
                /\ now' = now
                /\ ctl'["main"].pc \in {"sleep", "exiting", "stopped", "killed"}]_vars

\* A signal came while main slept with time left to run, and signal_handler
\* has called cleanup() and is about to exit.
C11_Witness ==
    /\ Main.pc = "sleep" /\ hpc = <<"exit">> /\ sigs = 1
    /\ cycles >= 1 /\ now + CHECK_INTERVAL(platform) < RUN_DURATION(platform)

\* C12: cleanup() is executed exactly once in a run that signals stop,
\* however many signals arrive: never more than once, and once by the time
\* the handler's exit has taken main out of main().
C12_CleanupExactlyOnce ==
    /\ cleanups <= 1
    /\ (platform # "macOS" /\ Main.pc \in {"exiting", "exited"}) => cleanups = 1

\* The step of thread t in which run_command comes back from a command that
\* does not exist on the host.
RunsMissingCommand(t) ==
    /\ At(t, "cmd")
    /\ ctl'[t] = After(t, ctl[t].i + 1)
    /\ logged' = CommandLog(platform, "missing")

\* C13: whenever run_command runs a command that does not exist, in any probe
\* of any script, what it logs holds a warning, holds no error, and differs
\* from what it logs for a command that exists and exits non-zero.
C13_MissingCommandIsWarning ==
    [][\A t \in Threads :
          RunsMissingCommand(t) =>
              /\ \E j \in 1..Len(logged') : logged'[j].level = "WARNING"
              /\ \A j \in 1..Len(logged') : logged'[j].level # "ERROR"
              /\ logged' # CommandLog(platform, "nonzero")]_vars

\* C14: once the AIX script has stopped on a signal (cleanup() has run and
\* the exit has taken main out of main()), neither worker thread is still
\* inside its probe function.
C14_NoWorkerLeftBehind ==
    (platform = "AIX" /\ cleanups >= 1 /\ Main.pc \in {"exiting", "exited"}) =>
        \A w \in Workers : ctl[w].pc \notin {"run", "hung"}

\* No thread is inside a command that never returns.
NoCommandHangs == \A t \in Threads : ctl[t].pc # "hung"

\* C15: in a run no signal interrupts, no pass begins once the elapsed time
\* has reached RUN_DURATION; the completion message is logged only by the
\* step that ends the loop, after which main does nothing more; and if every
\* command returns or times out, the run comes to that end with the elapsed
\* time at RUN_DURATION.
C15_RunCompletes ==
    /\ [][cycles' # cycles => now < RUN_DURATION(platform)]_vars
    /\ [][/\ logged' = <<Rec("INFO", "completed")>> =>
               (Main.pc = "test" /\ ctl'["main"].pc = "done")
          /\ Main.pc = "done" => ctl'["main"] = ctl["main"]]_vars
    /\ ([]NoCommandHangs) => <>(Main.pc = "done" /\ now >= RUN_DURATION(platform))

\* ------------------------------------------- the alert decision on its own
Percents == 0..100

\* The first pass of the Linux script just after cpu_memory_stats has read
\* its two values, for every pair of values psutil can report.
InitAlert ==
    /\ platform = "Linux"
    /\ ctl = [t \in Threads |->
                IF t = "main" THEN [Enter("Linux", 1) EXCEPT !.i = 2] ELSE Idle]
    /\ now = 1
    /\ cycles = 1
    /\ invoked = Count([f \in ProbeNames |-> 0], "cpu_memory_stats")
    /\ sysinfoRuns = 1
    /\ logged = <<Rec("INFO", "usage")>>
    /\ metrics \in [cpu : Percents, mem : Percents]
    /\ alerts = {}
    /\ hpc = <<>>
    /\ sigs = 0
    /\ cleanups = 0
    /\ aborted = "none"

NextAlert == AlertDecision

SpecAlert == InitAlert /\ [][NextAlert]_vars

====
